---- MODULE Spec2Model ----
(***************************************************************************)
(* Model of ShuntingYardSample.cpp: main() calls evaluate() on each of its *)
(* expressions; evaluate() tokenises the expression on whitespace, runs    *)
(* ShuntingYard::shuntInfixToRPN on the tokens and RPN::calculatePostfix   *)
(* on the shunted output.                                                  *)
(*                                                                         *)
(* A token (std::string) is a sequence of one-character strings, a stack   *)
(* is a sequence whose top is its last element, a queue is a sequence      *)
(* whose front is its first element.                                       *)
(***************************************************************************)
EXTENDS Integers, Sequences, FiniteSets, TLC

\* ------------------------------------------------------------------ bounds
\* longest expression (in words) enumerated over the whole alphabet
MaxLen == 3
\* largest number of operators in the enumerated parenthesised expressions
MaxOps == 2
\* largest number of expressions main() evaluates in the multi-call runs
MaxCalls == 2

\* ------------------------------------------------------- the integer type
\* int: 32 bits, two's complement
IntMax == 2147483647
IntMin == (-IntMax) - 1

\* values an indeterminate int (uninitialised, or read through a wild
\* reference) may show
IndeterminateInt == {0, 12345}

\* ------------------------------------------------------------ characters
Digits == {"0", "1", "2", "3", "4", "5", "6", "7", "8", "9"}

isdigit(c) == c \in Digits

DigitValue(c) ==
  CASE c = "0" -> 0 [] c = "1" -> 1 [] c = "2" -> 2 [] c = "3" -> 3
    [] c = "4" -> 4 [] c = "5" -> 5 [] c = "6" -> 6 [] c = "7" -> 7
    [] c = "8" -> 8 [] c = "9" -> 9

isspace(c) == c = " "

\* ---------------------------------------------------------------- tokens
Plus == <<"+">>
Minus == <<"-">>
Times == <<"*">>
Divide == <<"/">>
LeftParen == <<"(">>
RightParen == <<")">>
EmptyToken == <<>>

\* bool isOperator(const std::string& token)
isOperator_orRightParen(token) ==
  token = Plus \/ token = Minus \/ token = Times \/ token = Divide
    \/ token = RightParen

isOperator(token) ==
  token = Plus \/ token = Minus \/ token = Times \/ token = Divide

\* bool isParenthesis(const std::string& token)
isParenthesis_onlyRight(token) == token = RightParen

isParenthesis_never(token) == FALSE

isParenthesis(token) == token = LeftParen \/ token = RightParen

\* bool verifyInteger(const std::string& token): the loop from index i on,
\* isInteger being the flag so far
RECURSIVE verifyIntegerFrom(_, _, _)
verifyIntegerFrom(token, i, isInteger) ==
  IF i > Len(token) THEN isInteger
  ELSE IF ~isdigit(token[i]) THEN FALSE
  ELSE verifyIntegerFrom(token, i + 1, TRUE)

verifyInteger_firstDigit(token) == Len(token) > 0 /\ isdigit(token[1])

verifyInteger(token) == verifyIntegerFrom(token, 1, FALSE)

\* std::stoi on a token of decimal digits: the value, or out_of_range when
\* the value does not fit an int (std::out_of_range is thrown)
RECURSIVE stoiFrom(_, _, _)
stoiFrom(token, i, acc) ==
  IF i > Len(token) THEN [out_of_range |-> FALSE, value |-> acc]
  ELSE LET d == DigitValue(token[i])
       IN IF acc > (IntMax - d) \div 10
          THEN [out_of_range |-> TRUE, value |-> 0]
          ELSE stoiFrom(token, i + 1, acc * 10 + d)

stoi(token) == stoiFrom(token, 1, 0)

\* ------------------------------------------------------- int arithmetic
\* signed overflow is undefined behaviour: these say when it happens
AddOverflows(a, b) == IF b >= 0 THEN a > IntMax - b ELSE a < IntMin - b

SubOverflows(a, b) == IF b >= 0 THEN a < IntMin + b ELSE a > IntMax + b

MulOverflows(a, b) ==
  IF a = 0 \/ b = 0 \/ a = 1 \/ b = 1 THEN FALSE
  ELSE IF a = IntMin \/ b = IntMin THEN TRUE
  ELSE LET absA == IF a < 0 THEN -a ELSE a
           absB == IF b < 0 THEN -b ELSE b
       IN IF (a < 0) = (b < 0) THEN absA > IntMax \div absB
          ELSE absB > 1 /\ absA > IntMin \div (-absB)

DivOverflows(a, b) == a = IntMin /\ b = -1

\* a / b of C++ for b # 0 and no overflow: the quotient truncated towards 0
TruncDiv(a, b) ==
  LET negA == IF a > 0 THEN -a ELSE a
      negB == IF b > 0 THEN -b ELSE b
      q == negA \div negB
  IN IF (a < 0) = (b < 0) THEN q ELSE -q

\* ------------------------------------------------------------ tokeniser
\* std::istringstream >> std::string : skip leading whitespace ...
RECURSIVE SkipSpace(_, _)
SkipSpace(expr, pos) ==
  IF pos <= Len(expr) /\ isspace(expr[pos]) THEN SkipSpace(expr, pos + 1)
  ELSE pos

\* ... then take characters up to the next whitespace or the end
RECURSIVE WordEnd(_, _)
WordEnd(expr, pos) ==
  IF pos <= Len(expr) /\ ~isspace(expr[pos]) THEN WordEnd(expr, pos + 1)
  ELSE pos

\* the while (tokeniser) loop of evaluate: every extraction is pushed, the
\* failed one (an empty temp) included, after which the stream tests false
RECURSIVE tokeniseFrom(_, _, _)
tokeniseFrom(expr, pos, toks) ==
  LET start == SkipSpace(expr, pos)
      stop == WordEnd(expr, start)
  IN IF start > Len(expr) THEN Append(toks, EmptyToken)
     ELSE tokeniseFrom(expr, stop, Append(toks, SubSeq(expr, start, stop - 1)))

tokenise(expr) == tokeniseFrom(expr, 1, <<>>)

\* ------------------------------------------------------- stacks, queues
top(stack) == stack[Len(stack)]

pop(stack) == SubSeq(stack, 1, Len(stack) - 1)

\* ---------------------------------------------------------------- state
VARIABLES
  testExpressions,        \* main: the expressions to evaluate
  mainIndex,              \* main: the loop variable, from 1
  result,                 \* main: int result
  console,                \* everything written to std::cout
  pc,                     \* where the program is
  returned,               \* the bool evaluate returned last
  tokens,                 \* evaluate: the tokenised expression
  shuntedOutput,          \* evaluate: the postfix sequence (returnArray)
  operatorStack,          \* ShuntingYard::operatorStack
  outputQueue,            \* ShuntingYard::outputQueue
  i,                      \* shuntInfixToRPN: the loop variable, from 1
  topOperatorStackToken,  \* shuntInfixToRPN: the cached top
  valueStack,             \* RPN::valueStack
  calc_i,                 \* calculatePostfix: the loop variable, from 1
  currentToken,           \* the token the running loop holds
  arg1,                   \* calculatePostfix: first popped operand
  arg2,                   \* calculatePostfix: second popped operand
  entryResult,            \* history: result when evaluate was entered
  history                 \* history: <<expression, outcome>> of finished calls

mainVars == <<testExpressions, mainIndex>>
shuntVars == <<tokens, shuntedOutput, operatorStack, outputQueue, i,
               topOperatorStackToken>>
calcVars == <<valueStack, calc_i, arg1, arg2>>
vars == <<testExpressions, mainIndex, result, console, pc, returned, tokens,
          shuntedOutput, operatorStack, outputQueue, i, topOperatorStackToken,
          valueStack, calc_i, currentToken, arg1, arg2, entryResult, history>>

\* one write to std::cout: the text, and the token or value streamed with it
Out(text, token, value) == [text |-> text, token |-> token, value |-> value]

Say(text) == Out(text, EmptyToken, 0)

\* the texts written since the running (or last) call of evaluate began
RECURSIVE TextsSinceCall(_, _)
TextsSinceCall(out, k) ==
  IF k = 0 \/ out[k].text = "Evaluating: " THEN <<>>
  ELSE Append(TextsSinceCall(out, k - 1), out[k].text)

CallTexts == TextsSinceCall(console, Len(console))

Wrote(text) == \E k \in 1..Len(CallTexts) : CallTexts[k] = text

\* --------------------------------------------------------------- inputs
IntMaxLiteral == <<"2", "1", "4", "7", "4", "8", "3", "6", "4", "7">>

\* the least literal an int cannot hold
OutOfRangeLiteral == <<"2", "1", "4", "7", "4", "8", "3", "6", "4", "8">>

Alphabet ==
  { <<"0">>, <<"1">>, <<"3">>, IntMaxLiteral, OutOfRangeLiteral, Plus, Minus,
    Times, Divide, LeftParen, RightParen, <<"x">>, <<"1", "x">> }

Operators == {Plus, Minus, Times, Divide}

ParenLiterals == { <<"3">>, IntMaxLiteral }

SeqsUpTo(S, n) == UNION { [1..k -> S] : k \in 0..n }

\* an expression: its words separated by single spaces
RECURSIVE Join(_)
Join(words) ==
  IF words = <<>> THEN <<>>
  ELSE IF Len(words) = 1 THEN words[1]
  ELSE words[1] \o <<" ">> \o Join(Tail(words))

\* the parenthesised expressions with exactly n operators, as word lists:
\* a literal, or ( e op e )
RECURSIVE ParenExprs(_)
ParenExprs(n) ==
  IF n = 0 THEN { <<lit>> : lit \in ParenLiterals }
  ELSE UNION { { <<LeftParen>> \o l \o <<op>> \o r \o <<RightParen>> :
                   l \in ParenExprs(k), r \in ParenExprs(n - 1 - k),
                   op \in Operators } : k \in 0..(n - 1) }

\* those and, the outermost pair being optional, each without it
ParenInputs ==
  UNION { ParenExprs(n) \cup
          { SubSeq(e, 2, Len(e) - 1) : e \in (IF n = 0 THEN {} ELSE ParenExprs(n)) } :
          n \in 0..MaxOps }

\* main: std::string testExpressions[5], as word lists
TestWords ==
  << << <<"1">>, Plus, <<"3">> >>,
     << LeftParen, <<"1">>, Plus, <<"3">>, RightParen, Times, <<"2">> >>,
     << LeftParen, <<"4">>, Divide, <<"2">>, RightParen, Plus, <<"6">> >>,
     << <<"4">>, Plus, LeftParen, <<"1", "2">>, Divide, LeftParen, <<"1">>,
        Times, <<"2">>, RightParen, RightParen >>,
     << LeftParen, <<"1">>, Plus, LeftParen, <<"1", "2">>, Times, <<"2">>,
        RightParen >> >>

TestExpressions == [k \in 1..Len(TestWords) |-> Join(TestWords[k])]

\* further expressions, longer than MaxLen words: a bracket-free one with
\* two different operators
ExampleWords ==
  { << <<"1">>, Times, <<"2">>, Plus, <<"3">> >> }

\* expressions for the runs of several calls: one per way evaluate can end
CallInputs ==
  { Join(w) : w \in
      { <<>>,
        << <<"1">>, Plus, <<"3">> >>,
        << <<"3">>, Minus, <<"1">> >>,
        << LeftParen, <<"1">> >>,
        << <<"1">>, RightParen >>,
        << <<"1">>, Plus, <<"x">> >>,
        << <<"3">>, Divide, <<"0">> >>,
        << Plus >> } }

\* ----------------------------------------------------------------- Init
InitCall(exprs) ==
  /\ testExpressions = exprs
  /\ mainIndex = 1
  /\ result \in IndeterminateInt
  /\ console = <<>>
  /\ pc = "main"
  /\ returned = FALSE
  /\ tokens = <<>>
  /\ shuntedOutput = <<>>
  /\ operatorStack = <<>>
  /\ outputQueue = <<>>
  /\ i = 1
  /\ topOperatorStackToken = EmptyToken
  /\ valueStack = <<>>
  /\ calc_i = 1
  /\ currentToken = EmptyToken
  /\ arg1 = 0
  /\ arg2 = 0
  /\ entryResult = result
  /\ history = {}

\* main evaluates one expression: any word list up to MaxLen words, or one
\* of its own five
Init ==
  \E w \in SeqsUpTo(Alphabet, MaxLen) \cup ExampleWords \cup
            { TestWords[k] : k \in 1..Len(TestWords) } :
    InitCall(<< Join(w) >>)

\* main evaluates one parenthesised expression, or one of its own five
InitParen ==
  \E w \in ParenInputs \cup { TestWords[k] : k \in 1..Len(TestWords) } :
    InitCall(<< Join(w) >>)

\* main evaluates its own five expressions, or up to MaxCalls of CallInputs
InitMain ==
  \/ InitCall(TestExpressions)
  \/ \E exprs \in SeqsUpTo(CallInputs, MaxCalls) : InitCall(exprs)

\* -------------------------------------------------------------- actions
\* main: the loop calls evaluate, which constructs shunter and rpn,
\* tokenises the expression and calls shuntInfixToRPN
Call ==
  /\ pc = "main"
  /\ mainIndex <= Len(testExpressions)
  /\ console' = Append(console,
                       Out("Evaluating: ", testExpressions[mainIndex], 0))
  /\ tokens' = tokenise(testExpressions[mainIndex])
  /\ shuntedOutput' = <<>>
  /\ operatorStack' = <<>>
  /\ outputQueue' = <<>>
  /\ valueStack' = <<>>
  /\ i' = 1
  /\ calc_i' = 1
  /\ topOperatorStackToken' = EmptyToken
  /\ currentToken' = EmptyToken
  /\ arg1' = 0
  /\ arg2' = 0
  /\ entryResult' = result
  /\ pc' = "shunt_for"
  /\ UNCHANGED <<mainVars, result, returned, history>>

\* shuntInfixToRPN returns false: evaluate reports it and returns false
ShuntFails(said) ==
  /\ console' = console \o said \o << Say("Shunt failed") >>
  /\ returned' = FALSE
  /\ pc' = "returned"

\* what operatorStack.top() on an empty stack (undefined behaviour) does:
\* the program dies, or the wild reference reads as "("
EmptyTopOutcomes == {"crash", "reads ("}

\* shuntInfixToRPN: outputQueue.push(currentToken) for a number
PushNumber_front(queue, token) == << token >> \o queue

PushNumber(queue, token) == Append(queue, token)

\* shuntInfixToRPN: operatorStack.push(currentToken) for an operator or a
\* left bracket
PushOperator_popsFirst(stack, token) == Append(pop(stack), token)

PushOperator_twice(stack, token) == Append(Append(stack, token), token)

PushOperator(stack, token) == Append(stack, token)

\* shuntInfixToRPN: one iteration of the token loop, up to the caching of
\* the top for a right bracket
ShuntFor ==
  /\ pc = "shunt_for"
  /\ \E ub \in EmptyTopOutcomes :
       IF i > Len(tokens)
       THEN /\ pc' = "shunt_drain"
            /\ UNCHANGED <<console, returned, shuntVars, currentToken>>
       ELSE /\ currentToken' = tokens[i]
            /\ UNCHANGED <<tokens, shuntedOutput>>
            /\ IF verifyInteger(tokens[i])
               THEN /\ outputQueue' = PushNumber(outputQueue, tokens[i])
                    /\ i' = i + 1
                    /\ UNCHANGED <<pc, console, returned, operatorStack,
                                   topOperatorStackToken>>
               ELSE IF isOperator(tokens[i]) \/ tokens[i] = LeftParen
               THEN /\ operatorStack' = PushOperator(operatorStack, tokens[i])
                    /\ i' = i + 1
                    /\ UNCHANGED <<pc, console, returned, outputQueue,
                                   topOperatorStackToken>>
               ELSE IF tokens[i] = RightParen
               THEN /\ UNCHANGED <<console, returned, operatorStack,
                                   outputQueue, i>>
                    /\ IF operatorStack # <<>>
                       THEN /\ topOperatorStackToken' = top(operatorStack)
                            /\ pc' = "shunt_while"
                       ELSE IF ub = "crash"
                       THEN /\ pc' = "crashed"
                            /\ UNCHANGED topOperatorStackToken
                       ELSE /\ topOperatorStackToken' = LeftParen
                            /\ pc' = "shunt_while"
               ELSE IF tokens[i] # EmptyToken
               THEN /\ ShuntFails(<< Say("Failure Point: Default condition"),
                                     Out("", tokens[i], 0) >>)
                    /\ UNCHANGED <<operatorStack, outputQueue, i,
                                   topOperatorStackToken>>
               ELSE /\ i' = i + 1
                    /\ UNCHANGED <<pc, console, returned, operatorStack,
                                   outputQueue, topOperatorStackToken>>
  /\ UNCHANGED <<mainVars, result, calcVars, entryResult, history>>

\* shuntInfixToRPN: the test of the cached top against "(", negated in the
\* while condition and in the failure test after the loop
FoundLeftBracket_never(token) == FALSE

FoundLeftBracket(token) == token = LeftParen

\* shuntInfixToRPN: the while loop of a right bracket, one test of its
\* condition and one run of its body
ShuntWhile ==
  /\ pc = "shunt_while"
  /\ IF ~FoundLeftBracket(topOperatorStackToken)
     THEN /\ outputQueue' = Append(outputQueue, topOperatorStackToken)
          /\ operatorStack' = pop(operatorStack)
          /\ IF pop(operatorStack) = <<>>
             THEN /\ pc' = "shunt_endparen"
                  /\ UNCHANGED topOperatorStackToken
             ELSE /\ topOperatorStackToken' = top(pop(operatorStack))
                  /\ UNCHANGED pc
     ELSE /\ pc' = "shunt_endparen"
          /\ UNCHANGED <<outputQueue, operatorStack, topOperatorStackToken>>
  /\ UNCHANGED <<mainVars, result, console, returned, tokens, shuntedOutput,
                 i, calcVars, currentToken, entryResult, history>>

\* shuntInfixToRPN: "Pop & discard the left bracket from the stack"
DiscardLeftBracket_keeps(stack) == stack

DiscardLeftBracket(stack) == IF stack # <<>> THEN pop(stack) ELSE stack

\* shuntInfixToRPN: after the while loop, the left bracket is popped, or
\* the conversion fails
ShuntEndParen ==
  /\ pc = "shunt_endparen"
  /\ operatorStack' = DiscardLeftBracket(operatorStack)
  /\ IF ~FoundLeftBracket(topOperatorStackToken)
     THEN /\ ShuntFails(<< Say("Failure Point: Mismatched parenthesis") >>)
          /\ UNCHANGED i
     ELSE /\ i' = i + 1
          /\ pc' = "shunt_for"
          /\ UNCHANGED <<console, returned>>
  /\ UNCHANGED <<mainVars, result, tokens, shuntedOutput, outputQueue,
                 topOperatorStackToken, calcVars, currentToken, entryResult,
                 history>>

\* shuntInfixToRPN: the loop that clears the operator stack
ShuntDrain ==
  /\ pc = "shunt_drain"
  /\ IF operatorStack = <<>>
     THEN /\ pc' = "shunt_copy"
          /\ UNCHANGED <<console, returned, operatorStack, outputQueue>>
     ELSE IF isParenthesis(top(operatorStack))
     THEN /\ ShuntFails(<< Say("Failure Point: mismatched parenthesis") >>)
          /\ UNCHANGED <<operatorStack, outputQueue>>
     ELSE /\ outputQueue' = Append(outputQueue, top(operatorStack))
          /\ operatorStack' = pop(operatorStack)
          /\ UNCHANGED <<pc, console, returned>>
  /\ UNCHANGED <<mainVars, result, tokens, shuntedOutput, i,
                 topOperatorStackToken, calcVars, currentToken, entryResult,
                 history>>

\* shuntInfixToRPN: the loop that copies the output queue to returnArray;
\* at its end the conversion returns true and evaluate calls calculatePostfix
ShuntCopy ==
  /\ pc = "shunt_copy"
  /\ IF outputQueue # <<>>
     THEN /\ shuntedOutput' = Append(shuntedOutput, Head(outputQueue))
          /\ outputQueue' = Tail(outputQueue)
          /\ UNCHANGED <<pc, console>>
     ELSE /\ console' = Append(console, Say("Expression successfully shunted"))
          /\ pc' = "calc_for"
          /\ UNCHANGED <<shuntedOutput, outputQueue>>
  /\ UNCHANGED <<mainVars, result, returned, tokens, operatorStack, i,
                 topOperatorStackToken, calcVars, currentToken, entryResult,
                 history>>

\* calculatePostfix: the operation an operator token selects, on the popped
\* arg1 (the top) and arg2 (the next); undefined is signed overflow or a
\* division by zero
ApplyOperator_timesAdds(token, a1, a2) ==
  IF token = Plus \/ token = Times
  THEN [undefined |-> AddOverflows(a1, a2),
        value |-> IF AddOverflows(a1, a2) THEN 0 ELSE a1 + a2]
  ELSE IF token = Minus
  THEN [undefined |-> SubOverflows(a1, a2),
        value |-> IF SubOverflows(a1, a2) THEN 0 ELSE a1 - a2]
  ELSE [undefined |-> a1 = 0 \/ DivOverflows(a2, a1),
        value |-> IF a1 = 0 \/ DivOverflows(a2, a1) THEN 0
                  ELSE TruncDiv(a2, a1)]

ApplyOperator(token, a1, a2) ==
  IF token = Plus
  THEN [undefined |-> AddOverflows(a1, a2),
        value |-> IF AddOverflows(a1, a2) THEN 0 ELSE a1 + a2]
  ELSE IF token = Minus
  THEN [undefined |-> SubOverflows(a1, a2),
        value |-> IF SubOverflows(a1, a2) THEN 0 ELSE a1 - a2]
  ELSE IF token = Times
  THEN [undefined |-> MulOverflows(a1, a2),
        value |-> IF MulOverflows(a1, a2) THEN 0 ELSE a1 * a2]
  ELSE [undefined |-> a1 = 0 \/ DivOverflows(a2, a1),
        value |-> IF a1 = 0 \/ DivOverflows(a2, a1) THEN 0
                  ELSE TruncDiv(a2, a1)]

\* what undefined behaviour on an int does: the program dies, or some
\* value is produced
UndefinedOutcomes ==
  { [crash |-> TRUE, value |-> 0] } \cup
  { [crash |-> FALSE, value |-> v] : v \in IndeterminateInt }

\* calculatePostfix: "If there is one value left on the stack, it is
\* returned as the result"
OneValueLeft_never(stack) == FALSE

OneValueLeft(stack) == Len(stack) = 1

\* calculatePostfix returns false: evaluate returns false
CalcFails_succeeds(said) ==
  /\ console' = Append(console, Say(said))
  /\ returned' = TRUE
  /\ pc' = "returned"
  /\ UNCHANGED result

CalcFails_returning0(said) ==
  /\ console' = Append(console, Say(said))
  /\ result' = 0
  /\ returned' = FALSE
  /\ pc' = "returned"

CalcFails(said) ==
  /\ console' = Append(console, Say(said))
  /\ returned' = FALSE
  /\ pc' = "returned"
  /\ UNCHANGED result

\* calculatePostfix: one iteration of the token loop, or, after the last,
\* the final result
CalcFor ==
  /\ pc = "calc_for"
  /\ \E ub \in UndefinedOutcomes :
       IF calc_i > Len(shuntedOutput)
       THEN /\ UNCHANGED <<console, calcVars, currentToken>>
            /\ IF valueStack # <<>>
               THEN /\ result' = top(valueStack)
                    /\ returned' = TRUE
                    /\ pc' = "returned"
               ELSE IF ub.crash
               THEN /\ pc' = "crashed"
                    /\ UNCHANGED <<result, returned>>
               ELSE /\ result' = ub.value
                    /\ returned' = TRUE
                    /\ pc' = "returned"
       ELSE /\ currentToken' = shuntedOutput[calc_i]
            /\ IF verifyInteger(shuntedOutput[calc_i])
               THEN /\ UNCHANGED <<result, console, returned, arg1, arg2>>
                    /\ IF stoi(shuntedOutput[calc_i]).out_of_range
                       THEN /\ pc' = "terminated"
                            /\ UNCHANGED <<valueStack, calc_i>>
                       ELSE /\ valueStack' =
                              Append(valueStack, stoi(shuntedOutput[calc_i]).value)
                            /\ calc_i' = calc_i + 1
                            /\ UNCHANGED pc
               ELSE IF isOperator(shuntedOutput[calc_i])
               THEN IF OneValueLeft(valueStack)
                    THEN /\ result' = top(valueStack)
                         /\ valueStack' = pop(valueStack)
                         /\ returned' = TRUE
                         /\ pc' = "returned"
                         /\ UNCHANGED <<console, calc_i, arg1, arg2>>
                    ELSE IF Len(valueStack) >= 2
                    THEN LET a1 == top(valueStack)
                             a2 == top(pop(valueStack))
                             r == ApplyOperator(shuntedOutput[calc_i], a1, a2)
                         IN /\ arg1' = a1
                            /\ arg2' = a2
                            /\ UNCHANGED <<result, console, returned>>
                            /\ IF r.undefined /\ ub.crash
                               THEN /\ pc' = "crashed"
                                    /\ valueStack' = pop(pop(valueStack))
                                    /\ UNCHANGED calc_i
                               ELSE /\ valueStack' =
                                      Append(pop(pop(valueStack)),
                                             IF r.undefined THEN ub.value
                                             ELSE r.value)
                                    /\ calc_i' = calc_i + 1
                                    /\ UNCHANGED pc
                    ELSE /\ CalcFails("Not enough arguements. Evaluation failed")
                         /\ UNCHANGED calcVars
               ELSE /\ CalcFails("Invalid expression. Returning 0.")
                    /\ UNCHANGED calcVars
  /\ UNCHANGED <<mainVars, shuntVars, entryResult, history>>

\* what a finished call of evaluate gave: the bool, the result when true,
\* and the texts it wrote
Outcome ==
  [ok |-> returned, value |-> IF returned THEN result ELSE 0,
   said |-> CallTexts]

\* main: the report on the call, and the loop's increment
MainReport ==
  /\ pc = "returned"
  /\ console' = Append(console,
       IF returned THEN Out("Evaluation Successful. Result: ", EmptyToken, result)
       ELSE Say("Evaluation Failed."))
  /\ history' = history \cup { <<testExpressions[mainIndex], Outcome>> }
  /\ mainIndex' = mainIndex + 1
  /\ pc' = "main"
  /\ UNCHANGED <<testExpressions, result, returned, shuntVars, calcVars,
                 currentToken, entryResult>>

\* main: return 0 after the loop
MainReturn ==
  /\ pc = "main"
  /\ mainIndex > Len(testExpressions)
  /\ pc' = "exit"
  /\ UNCHANGED <<mainVars, result, console, returned, shuntVars, calcVars,
                 currentToken, entryResult, history>>

Next ==
  \/ Call
  \/ ShuntFor
  \/ ShuntWhile
  \/ ShuntEndParen
  \/ ShuntDrain
  \/ ShuntCopy
  \/ CalcFor
  \/ MainReport
  \/ MainReturn

Spec == Init /\ [][Next]_vars

SpecParen == InitParen /\ [][Next]_vars

SpecMain == InitMain /\ [][Next]_vars

\* a step of a running call of evaluate
EvaluateStep ==
  ShuntFor \/ ShuntWhile \/ ShuntEndParen \/ ShuntDrain \/ ShuntCopy \/ CalcFor

\* evaluate runs in one thread with nothing to wait for: once called, its
\* next step is taken
SpecLive == Init /\ [][Next]_vars /\ WF_vars(EvaluateStep)

\* ---------------------------------------------------- reference notions
\* the words of the expression being evaluated: the tokens without the
\* empty one the tokeniser ends with
Words == IF tokens = <<>> THEN <<>> ELSE SubSeq(tokens, 1, Len(tokens) - 1)

\* a non-empty word of decimal digits
IsLiteral(t) == Len(t) > 0 /\ \A k \in 1..Len(t) : t[k] \in Digits

\* neither literal, operator, bracket nor the empty token
Invalid(t) ==
  /\ ~IsLiteral(t)
  /\ t \notin Operators
  /\ t # LeftParen
  /\ t # RightParen
  /\ t # EmptyToken

\* the number a literal denotes; fits says whether an int can hold it
RECURSIVE LiteralValue(_)
LiteralValue(t) ==
  IF t = <<>> THEN [fits |-> TRUE, value |-> 0]
  ELSE LET r == LiteralValue(SubSeq(t, 1, Len(t) - 1))
           d == DigitValue(t[Len(t)])
       IN IF ~r.fits \/ r.value > (IntMax - d) \div 10
          THEN [fits |-> FALSE, value |-> 0]
          ELSE [fits |-> TRUE, value |-> r.value * 10 + d]

\* how many left brackets are open after the first k tokens, a right
\* bracket closing the last open one
RECURSIVE Depth(_, _)
Depth(toks, k) ==
  IF k = 0 THEN 0
  ELSE LET d == Depth(toks, k - 1)
       IN IF toks[k] = LeftParen THEN d + 1
          ELSE IF toks[k] = RightParen /\ d > 0 THEN d - 1
          ELSE d

\* some left bracket is never closed by a later right bracket
Unclosed(toks) == Depth(toks, Len(toks)) > 0

\* A reference reading of an expression by recursive descent:
\*   operand ::= literal | ( operand op operand )
\*   expression ::= operand | operand op operand
\* ok: the words from p on start with one; next: where it ends; post: its
\* postfix form; plusTimes: it uses + and * only; value: its value when
\* plusTimes, and fits: every literal and intermediate value fits an int.
NoParse ==
  [ok |-> FALSE, next |-> 0, post |-> <<>>, plusTimes |-> FALSE,
   fits |-> FALSE, value |-> 0]

RECURSIVE RefOperand(_, _), RefBinary(_, _)
RefOperand(w, p) ==
  IF p > Len(w) THEN NoParse
  ELSE IF IsLiteral(w[p])
  THEN [ok |-> TRUE, next |-> p + 1, post |-> << w[p] >>, plusTimes |-> TRUE,
        fits |-> LiteralValue(w[p]).fits, value |-> LiteralValue(w[p]).value]
  ELSE IF w[p] = LeftParen
  THEN LET e == RefBinary(w, p + 1)
       IN IF e.ok /\ e.next <= Len(w) /\ w[e.next] = RightParen
          THEN [e EXCEPT !.next = e.next + 1]
          ELSE NoParse
  ELSE NoParse

RefBinary(w, p) ==
  LET l == RefOperand(w, p)
  IN IF ~l.ok \/ l.next > Len(w) \/ w[l.next] \notin Operators THEN NoParse
     ELSE LET op == w[l.next]
              r == RefOperand(w, l.next + 1)
              both == l.plusTimes /\ r.plusTimes /\ op \in {Plus, Times}
              fit == /\ both /\ l.fits /\ r.fits
                     /\ IF op = Plus THEN l.value <= IntMax - r.value
                        ELSE r.value = 0 \/ l.value <= IntMax \div r.value
          IN IF ~r.ok THEN NoParse
             ELSE [ok |-> TRUE, next |-> r.next,
                   post |-> l.post \o r.post \o << op >>,
                   plusTimes |-> both, fits |-> fit,
                   value |-> IF ~fit THEN 0
                             ELSE IF op = Plus THEN l.value + r.value
                             ELSE l.value * r.value]

Reference(w) ==
  LET a == RefOperand(w, 1)
      b == RefBinary(w, 1)
  IN IF a.ok /\ a.next = Len(w) + 1 THEN a
     ELSE IF b.ok /\ b.next = Len(w) + 1 THEN b
     ELSE NoParse

\* a sequence back to front
RECURSIVE Reverse(_)
Reverse(seq) ==
  IF seq = <<>> THEN <<>> ELSE Append(Reverse(Tail(seq)), Head(seq))

IsOperatorWord(t) == t \in Operators

IsKeptWord(t) == IsLiteral(t) \/ t \in Operators

\* how many times a token occurs in a sequence
Count(t, seq) == Cardinality({ k \in 1..Len(seq) : seq[k] = t })

\* the texts of the failure points
SaidMismatchedAtBracket == "Failure Point: Mismatched parenthesis"
SaidMismatchedAtDrain == "Failure Point: mismatched parenthesis"
SaidInvalidToken == "Failure Point: Default condition"
SaidShuntFailed == "Shunt failed"
SaidShunted == "Expression successfully shunted"
SaidNotEnough == "Not enough arguements. Evaluation failed"
SaidInvalidExpression == "Invalid expression. Returning 0."

\* ------------------------------------------------------------------ C1
\* C1: when calculatePostfix applies '-' or '/' to at least two values, the
\* value pushed is arg2 OP arg1, arg1 being the popped top and arg2 the
\* next; so the postfix [a, b, '-'] gives a - b and [a, b, '/'], b # 0,
\* gives a / b.
C1_OperandOrder ==
  /\ (pc = "calc_for" /\ calc_i > 1 /\ shuntedOutput[calc_i - 1] = Minus
        /\ ~SubOverflows(arg2, arg1))
       => top(valueStack) = arg2 - arg1
  /\ (pc = "calc_for" /\ calc_i > 1 /\ shuntedOutput[calc_i - 1] = Divide
        /\ arg1 # 0 /\ ~DivOverflows(arg2, arg1))
       => top(valueStack) = TruncDiv(arg2, arg1)
  /\ (pc = "returned" /\ Len(shuntedOutput) = 3
        /\ IsLiteral(shuntedOutput[1]) /\ LiteralValue(shuntedOutput[1]).fits
        /\ IsLiteral(shuntedOutput[2]) /\ LiteralValue(shuntedOutput[2]).fits
        /\ Wrote(SaidShunted))
       => LET a == LiteralValue(shuntedOutput[1]).value
              b == LiteralValue(shuntedOutput[2]).value
          IN /\ shuntedOutput[3] = Minus => (returned /\ result = a - b)
             /\ (shuntedOutput[3] = Divide /\ b # 0)
                  => (returned /\ result = a \div b)

\* ------------------------------------------------------------------ C2
\* C2: a right bracket met when no left bracket is on the operator stack
\* ends the conversion in the failure "Mismatched parenthesis": the program
\* does not die there and the scan never goes past that bracket.
C2_UnmatchedRightParenFails ==
  \A k \in 1..Len(tokens) :
    (k <= i /\ tokens[k] = RightParen /\ Depth(tokens, k - 1) = 0)
      => /\ k = i
         /\ pc # "crashed"
         /\ pc \notin {"shunt_for", "shunt_while", "shunt_endparen"}
              => (~returned /\ Wrote(SaidMismatchedAtBracket))

C4_DivisionByZeroFails ==
  [][ (pc = "calc_for" /\ calc_i <= Len(shuntedOutput)
         /\ shuntedOutput[calc_i] = Divide
         /\ Len(valueStack) >= 2 /\ top(valueStack) = 0)
        => (pc' = "returned" /\ returned' = FALSE /\ result' = result
              /\ valueStack' = valueStack) ]_vars

\* ------------------------------------------------------------------ C5
\* C5: when calculatePostfix has processed every token without returning
\* earlier, it succeeds only with exactly one value on the value stack,
\* which is the result; with none or with two or more it fails.
C5_OneValueLeft ==
  (pc \in {"returned", "crashed"} /\ Wrote(SaidShunted)
     /\ calc_i > Len(shuntedOutput))
    => /\ pc = "returned"
       /\ IF Len(valueStack) = 1 THEN returned /\ result = top(valueStack)
          ELSE ~returned /\ result = entryResult

\* ------------------------------------------------------------------ C6
\* C6 as stated: for every well-formed, fully parenthesised expression over
\* literals, + and *, evaluate succeeds and the result is the value of the
\* expression.
C6_ReferenceValue ==
  LET r == Reference(Words)
  IN (r.ok /\ r.plusTimes /\ pc \in {"returned", "crashed", "terminated"})
       => (pc = "returned" /\ returned /\ r.fits /\ result = r.value)

\* C6 as amended: for every such expression whose literals and intermediate
\* values all fit an int, evaluate succeeds and the result is the value of
\* the expression.
C6_ReferenceValueInRange ==
  LET r == Reference(Words)
  IN (r.ok /\ r.plusTimes /\ r.fits)
       => /\ pc \notin {"crashed", "terminated"}
          /\ ~Wrote(SaidShuntFailed)
          /\ pc = "returned" => (returned /\ result = r.value)

\* ( 3 + 3 ) * 3 or the like was evaluated: two operators, both kinds
C6_Witness ==
  /\ pc = "returned"
  /\ returned
  /\ Reference(Words).ok /\ Reference(Words).plusTimes /\ Reference(Words).fits
  /\ \E j, k \in 1..Len(Words) : Words[j] = Plus /\ Words[k] = Times
  /\ result = Reference(Words).value

\* ------------------------------------------------------------------ C7
\* C7: for every well-formed expression in which every operator application
\* has its own bracket pair (the outermost optional), shuntInfixToRPN
\* succeeds with the standard postfix form; "1 + 3", "( 4 / 2 ) + 6" and
\* "4 + ( 12 / ( 1 * 2 ) )" give [1,3,+], [4,2,/,6,+] and
\* [4,12,1,2,*,/,+], which evaluate to 4, 8 and 10.
C7_StandardPostfix ==
  /\ Reference(Words).ok =>
       /\ ~Wrote(SaidShuntFailed)
       /\ pc \in {"calc_for", "returned", "crashed", "terminated"}
            => shuntedOutput = Reference(Words).post
  /\ (pc = "returned" /\ Words = TestWords[1]) =>
       /\ shuntedOutput = << <<"1">>, <<"3">>, Plus >>
       /\ returned /\ result = 4
  /\ (pc = "returned" /\ Words = TestWords[3]) =>
       /\ shuntedOutput = << <<"4">>, <<"2">>, Divide, <<"6">>, Plus >>
       /\ returned /\ result = 8
  /\ (pc = "returned" /\ Words = TestWords[4]) =>
       /\ shuntedOutput = << <<"4">>, <<"1", "2">>, <<"1">>, <<"2">>, Times,
                             Divide, Plus >>
       /\ returned /\ result = 10

\* "4 + ( 12 / ( 1 * 2 ) )" was shunted and evaluated
C7_Witness ==
  /\ pc = "returned"
  /\ Words = TestWords[4]
  /\ Len(shuntedOutput) = 7
  /\ returned

\* ------------------------------------------------------------------ C8
\* the scan never goes past an invalid token, and stopped at one the call
\* has failed at the shunting stage, nothing shunted
C8_StopsAtInvalid ==
  /\ \A k \in 1..Len(tokens) : k < i => ~Invalid(tokens[k])
  /\ (i <= Len(tokens) /\ Invalid(tokens[i]) /\ pc # "shunt_for")
       => /\ pc \in {"returned", "main", "exit"}
          /\ ~returned
          /\ Wrote(SaidInvalidToken)
          /\ Wrote(SaidShuntFailed)
          /\ ~Wrote(SaidShunted)
          /\ shuntedOutput = <<>>

\* C8: in shuntInfixToRPN a token that is no literal, operator or bracket
\* fails the conversion with "Default condition" (InvalidToken), at the
\* shunting stage, as soon as it is reached; the empty token is skipped
\* with the operator stack and the output queue unchanged, without failing.
C8_InvalidTokenFails ==
  /\ []C8_StopsAtInvalid
  /\ [][ (pc = "shunt_for" /\ i <= Len(tokens) /\ tokens[i] = EmptyToken)
           => (pc' = "shunt_for" /\ i' = i + 1
                 /\ UNCHANGED <<operatorStack, outputQueue, console, returned>>)
       ]_vars

\* "1 + x" failed at its third token
C8_Witness ==
  /\ pc = "returned"
  /\ Words = << <<"1">>, Plus, <<"x">> >>
  /\ i = 3
  /\ Wrote(SaidInvalidToken)

\* ------------------------------------------------------------------ C9
\* C9: evaluate is deterministic and history-independent: every two calls
\* on the same expression, whatever was evaluated between them, give the
\* same outcome.
C9_SameOutcome ==
  \A p, q \in history : p[1] = q[1] => p[2] = q[2]

\* ----------------------------------------------------------------- C10
\* C10: no partial results on failure: when shuntInfixToRPN fails its
\* result sequence is as on entry (empty), and when evaluate fails at
\* either stage the caller's result is as on entry.
C10_NoPartialResult ==
  /\ Wrote(SaidShuntFailed) => shuntedOutput = <<>>
  /\ (pc = "returned" /\ ~returned) => result = entryResult

\* "+" was shunted to [+] and the evaluation failed for want of operands
C10_Witness ==
  /\ pc = "returned"
  /\ ~returned
  /\ Wrote(SaidNotEnough)
  /\ shuntedOutput = << Plus >>
  /\ result = 12345

\* ----------------------------------------------------------------- C11
\* C11: in calculatePostfix a literal whose value an int cannot hold ends
\* the evaluation in a returned failure (ParseError): the program does not
\* end there without an outcome, and no value is pushed for the literal.
C11_OutOfRangeFails ==
  (/\ Wrote(SaidShunted)
   /\ calc_i <= Len(shuntedOutput)
   /\ IsLiteral(shuntedOutput[calc_i])
   /\ ~LiteralValue(shuntedOutput[calc_i]).fits
   /\ pc # "calc_for")
    => /\ pc \in {"returned", "main", "exit"}
       /\ ~returned
       /\ result = entryResult

C13_FirstLiteralReturned ==
  (/\ pc = "returned"
   /\ Wrote(SaidShunted)
   /\ Len(shuntedOutput) >= 2
   /\ IsLiteral(shuntedOutput[1])
   /\ LiteralValue(shuntedOutput[1]).fits
   /\ shuntedOutput[2] \in Operators)
    => /\ returned
       /\ result = LiteralValue(shuntedOutput[1]).value
       /\ calc_i = 2

\* C13: when calculatePostfix meets an operator with exactly one value on
\* the value stack it returns true at once with that value as the result:
\* the operator is not applied, nothing is written and no later token is
\* examined, so [1, +] and [1, +, ...] both give 1.
C13_EarlyReturn ==
  /\ []C13_FirstLiteralReturned
  /\ [][ (pc = "calc_for" /\ calc_i <= Len(shuntedOutput)
            /\ shuntedOutput[calc_i] \in Operators /\ Len(valueStack) = 1)
           => (/\ pc' = "returned"
               /\ returned'
               /\ result' = top(valueStack)
               /\ valueStack' = <<>>
               /\ calc_i' = calc_i
               /\ console' = console) ]_vars

\* "1 - +" was shunted to [1, +, -] and 1 returned at the "+"
C13_Witness ==
  /\ pc = "returned"
  /\ returned
  /\ shuntedOutput = << <<"1">>, Plus, Minus >>
  /\ calc_i = 2
  /\ result = 1

\* ----------------------------------------------------------------- C14
\* C14: when calculatePostfix meets an operator with an empty value stack
\* it fails with "Not enough arguements" (InsufficientOperands): false is
\* returned and no value is popped or pushed.
C14_EmptyStackFails ==
  [][ (pc = "calc_for" /\ calc_i <= Len(shuntedOutput)
        /\ shuntedOutput[calc_i] \in Operators /\ valueStack = <<>>)
       => (/\ pc' = "returned"
           /\ returned' = FALSE
           /\ console' = Append(console, Say(SaidNotEnough))
           /\ valueStack' = valueStack
           /\ result' = result) ]_vars

\* "-" was shunted to [-] and the evaluation failed at it with nothing on
\* the value stack
C14_Witness ==
  /\ pc = "returned"
  /\ ~returned
  /\ shuntedOutput = << Minus >>
  /\ calc_i = 1
  /\ valueStack = <<>>
  /\ Wrote(SaidNotEnough)

\* ----------------------------------------------------------------- C15
\* a bracket-free expression of literals and operators is shunted to its
\* literals in input order followed by its operators in reverse input order
C15_LiteralsThenReversedOperators ==
  (/\ \A k \in 1..Len(Words) : IsLiteral(Words[k]) \/ Words[k] \in Operators
   /\ pc \notin {"main", "shunt_for", "shunt_drain", "shunt_copy"})
    => /\ Wrote(SaidShunted)
       /\ shuntedOutput = SelectSeq(Words, IsLiteral)
                             \o Reverse(SelectSeq(Words, IsOperatorWord))

\* C15: shuntInfixToRPN pushes an operator onto the operator stack without
\* popping anything, whatever the stack holds; so a bracket-free expression
\* of literals and operators gives the literals in input order followed by
\* the operators in reverse input order ("1 * 2 + 3" gives [1,2,3,+,*]).
C15_OperatorsPushedUnconditionally ==
  /\ []C15_LiteralsThenReversedOperators
  /\ [][ (pc = "shunt_for" /\ i <= Len(tokens) /\ tokens[i] \in Operators)
           => (/\ operatorStack' = Append(operatorStack, tokens[i])
               /\ outputQueue' = outputQueue
               /\ i' = i + 1
               /\ pc' = "shunt_for") ]_vars

\* "1 * 2 + 3" was shunted to [1, 2, 3, +, *]
C15_Witness ==
  /\ pc = "calc_for"
  /\ Words = << <<"1">>, Times, <<"2">>, Plus, <<"3">> >>
  /\ shuntedOutput = << <<"1">>, <<"2">>, <<"3">>, Plus, Times >>

C18_InvalidBranchUnreachable ==
  /\ ~Wrote(SaidInvalidExpression)
  /\ Wrote(SaidShunted) =>
       \A k \in 1..Len(shuntedOutput) :
         IsLiteral(shuntedOutput[k]) \/ shuntedOutput[k] \in Operators

\* "( 1 + 3 ) * 2" was shunted and every token of [1, 3, +, 2, *] examined
C18_Witness ==
  /\ pc = "returned"
  /\ returned
  /\ Words = TestWords[2]
  /\ Len(shuntedOutput) = 5
  /\ calc_i = 6
  /\ result = 8

\* ----------------------------------------------------------------- C19
\* C19: whenever shuntInfixToRPN succeeds, the postfix sequence holds
\* exactly the literals and operators of the input, each as many times as
\* the input does (brackets and the empty token dropped, nothing added or
\* lost), and the literals are in the input's order.
C19_Rearrangement ==
  Wrote(SaidShunted) =>
    LET kept == SelectSeq(Words, IsKeptWord)
    IN /\ Len(shuntedOutput) = Len(kept)
       /\ \A k \in 1..Len(kept) :
            Count(kept[k], shuntedOutput) = Count(kept[k], kept)
       /\ SelectSeq(shuntedOutput, IsLiteral) = SelectSeq(Words, IsLiteral)

\* "( 4 / 2 ) + 6" was shunted to [4, 2, /, 6, +]
C19_Witness ==
  /\ pc = "calc_for"
  /\ calc_i = 1
  /\ Words = TestWords[3]
  /\ shuntedOutput = << <<"4">>, <<"2">>, Divide, <<"6">>, Plus >>

\* ----------------------------------------------------------------- C20
\* C20: for every expression, shuntInfixToRPN and then calculatePostfix
\* eventually end with a definite outcome: every call of evaluate returns
\* true or false.
C20_Terminates ==
  (pc = "shunt_for") ~> (pc = "returned")

\* the loops themselves end: every call of evaluate returns, or the program
\* ends in one of its undefined or uncaught steps
C20_LoopsEnd ==
  (pc = "shunt_for") ~> (pc \in {"returned", "crashed", "terminated"})

====
